---- MODULE Spec2Model ----
(***************************************************************************)
(* Model of femto_admin: the field-schema deriver (utils/fmap.py:          *)
(* type2inputs, ffrom_pyd, typ2inp) and the authentication gates           *)
(* (admin.py: Admin.auth_middleware; providers/auth.py and                 *)
(* providers/login.py: authenticate).                                      *)
(*                                                                         *)
(* Python values are modelled as follows.                                  *)
(*   str (field keys)  : sequences of one-character strings                *)
(*   dict              : function from key strings to values; a key that   *)
(*                       is absent from the dict is absent from DOMAIN     *)
(*   {value: name}     : set of <<value, name>> pairs                      *)
(*   type objects      : records [k, n, args] (see the constructors)       *)
(***************************************************************************)
EXTENDS Integers, Sequences, FiniteSets, TLC

\* ------------------------------------------------------------------------
\* Bounds of the model
\* ------------------------------------------------------------------------
NumCtx    == 2   \* request contexts that may run ffrom_pyd at the same time
MaxCalls  == 2   \* total number of ffrom_pyd calls in one behaviour
MaxTokens  == 2  \* session tokens uuid4 hands out in one behaviour
MaxAdmins  == 2  \* rows the admin table may hold
NumClients == 2  \* clients that may have a POST /init in flight
MaxRecords == 3  \* rows the table of the listed model may hold
MaxStart   == 4  \* largest start offset a dt request asks for
MaxLength  == 3  \* largest page length a dt request asks for

Ctx == 1..NumCtx

\* ------------------------------------------------------------------------
\* Python strings: characters, str.endswith, str.replace, str.capitalize
\* ------------------------------------------------------------------------
Lowers == <<"a","b","c","d","e","f","g","h","i","j","k","l","m",
            "n","o","p","q","r","s","t","u","v","w","x","y","z">>
Uppers == <<"A","B","C","D","E","F","G","H","I","J","K","L","M",
            "N","O","P","Q","R","S","T","U","V","W","X","Y","Z">>

Upper(ch) ==
    IF \E i \in 1..Len(Lowers) : Lowers[i] = ch
    THEN Uppers[CHOOSE i \in 1..Len(Lowers) : Lowers[i] = ch]
    ELSE ch

Lower(ch) ==
    IF \E i \in 1..Len(Uppers) : Uppers[i] = ch
    THEN Lowers[CHOOSE i \in 1..Len(Uppers) : Uppers[i] = ch]
    ELSE ch

IdSuffix == <<"_", "i", "d">>

\* key.endswith('_id')
EndsWith(s, suf) ==
    /\ Len(s) >= Len(suf)
    /\ SubSeq(s, Len(s) - Len(suf) + 1, Len(s)) = suf

\* key.replace('_id', ''): every non-overlapping occurrence, left to right
RECURSIVE Replace(_)
Replace(s) ==
    IF Len(s) < Len(IdSuffix) THEN s
    ELSE IF SubSeq(s, 1, Len(IdSuffix)) = IdSuffix
         THEN Replace(SubSeq(s, Len(IdSuffix) + 1, Len(s)))
         ELSE <<s[1]>> \o Replace(Tail(s))

\* str.capitalize(): first character upper-cased, the rest lower-cased
Capitalize(s) ==
    IF s = <<>> THEN <<>>
    ELSE <<Upper(s[1])>> \o [i \in 1..(Len(s) - 1) |-> Lower(s[i + 1])]

\* ------------------------------------------------------------------------
\* Python type objects
\* ------------------------------------------------------------------------
\* a plain class: str, int, ..., bytes, NoneType, IntEnum itself
Class(n)        == [k |-> "class", n |-> n, args |-> <<>>]
\* a subclass of IntEnum
EnumClass(n)    == [k |-> "intenum", n |-> n, args |-> <<>>]
\* X | Y | ...  (types.UnionType); args as typing.get_args returns them
UnionOf(args)   == [k |-> "uniontype", n |-> "Union", args |-> args]
\* typing.Optional[X]: _name == 'Optional', get_args == (X, NoneType)
OptionalOf(t)   == [k |-> "optional", n |-> "Optional",
                    args |-> <<t, Class("NoneType")>>]
\* origin[arg] (types.GenericAlias), e.g. list[int]
GenericOf(o, a) == [k |-> "generic", n |-> o, args |-> a]

PyStr    == Class("str")
PyInt    == Class("int")
NoneType == Class("NoneType")

\* members of the IntEnum subclasses of the model, as {t.value: t.name}
EnumMembers(n) ==
    CASE n = "Color" -> {<<1, "A">>, <<2, "B">>}
      [] n = "Shade" -> {<<5, "X">>}
      [] OTHER       -> {}

\* ------------------------------------------------------------------------
\* Python dicts
\* ------------------------------------------------------------------------
\* d.update(u) / {**d, **u}
Update(d, u) == [x \in (DOMAIN d) \cup (DOMAIN u) |->
                    IF x \in DOMAIN u THEN u[x] ELSE d[x]]

\* ------------------------------------------------------------------------
\* The widget catalog: type2inputs as the module is imported
\* ------------------------------------------------------------------------
\* variant: the float template with the step of the commented-out decimal row
Type2InputsInitStep ==
    [n \in {"str", "int", "float", "bool", "datetime", "date", "time",
            "IntEnum", "list", "dict", "set"} |->
        CASE n = "str"      -> [input |-> "input"]
          [] n = "int"      -> [input |-> "input", type |-> "number"]
          [] n = "float"    -> [input |-> "input", type |-> "number",
                                step |-> "0.01"]
          [] n = "bool"     -> [input |-> "checkbox"]
          [] n = "datetime" -> [input |-> "input", type |-> "datetime-local"]
          [] n = "date"     -> [input |-> "input", type |-> "date"]
          [] n = "time"     -> [input |-> "input", type |-> "time"]
          [] n = "IntEnum"  -> [input |-> "select"]
          [] n = "list"     -> [input |-> "select", multiple |-> TRUE]
          [] n = "dict"     -> [input |-> "json"]
          [] n = "set"      -> [input |-> "select", multiple |-> TRUE]]

Type2InputsInit ==
    [n \in {"str", "int", "float", "bool", "datetime", "date", "time",
            "IntEnum", "list", "dict", "set"} |->
        CASE n = "str"      -> [input |-> "input"]
          [] n = "int"      -> [input |-> "input", type |-> "number"]
          [] n = "float"    -> [input |-> "input", type |-> "number",
                                step |-> "0.001"]
          [] n = "bool"     -> [input |-> "checkbox"]
          [] n = "datetime" -> [input |-> "input", type |-> "datetime-local"]
          [] n = "date"     -> [input |-> "input", type |-> "date"]
          [] n = "time"     -> [input |-> "input", type |-> "time"]
          [] n = "IntEnum"  -> [input |-> "select"]
          [] n = "list"     -> [input |-> "select", multiple |-> TRUE]
          [] n = "dict"     -> [input |-> "json"]
          [] n = "set"      -> [input |-> "select", multiple |-> TRUE]]

\* type2inputs.get(typ) is not None; the templates are never empty dicts,
\* so `not (inp := type2inputs.get(typ))` is exactly "no entry"
InCatalog(cat, typ) == typ.k = "class" /\ typ.n \in DOMAIN cat

\* ------------------------------------------------------------------------
\* typ2inp
\* ------------------------------------------------------------------------
\* the value bound to `req`: the default True, or whatever the tuple
\* unpacking of get_args(typ) put there (a type object)
ReqDefault   == [tag |-> "bool", b |-> TRUE, t |-> NoneType]
ReqObject(t) == [tag |-> "type", b |-> TRUE, t |-> t]

\* bool(req): a bool is itself, a class object is truthy
PyBool(r) == IF r.tag = "bool" THEN r.b ELSE TRUE

\* isinstance(typ, UnionType) or typ._name == 'Optional'
IsUnwrapped(typ) == typ.k \in {"uniontype", "optional"}

\* issubclass(typ, IntEnum) raises TypeError unless typ is a class; a
\* types.GenericAlias forwards __bases__ to its origin and answers False
SubclassRaises(typ) == typ.k \in {"uniontype", "optional", "typing"}

\* result of a typ2inp call: the exception raised ("none" if it returned),
\* the dict it returned as the caller sees it at the return, and
\* type2inputs as the call left it
Raised(e, cat)   == [err |-> e, inp |-> [input |-> "none"], cat |-> cat]
Returned(d, cat) == [err |-> "none", inp |-> d, cat |-> cat]

\* variant: keys the template already has are not overwritten (setdefault
\* instead of update)
ViaTemplateSetDefault(cat, n, u, req) ==
    LET d == Update(Update(u, cat[n]), [req |-> PyBool(req)])
    IN  Returned(d, [cat EXCEPT ![n] = d])

\* inp is the catalog's own template object for key n: update it in place
\* with u, then with {'req': bool(req)}, and return it
ViaTemplate(cat, n, u, req) ==
    LET d == Update(Update(cat[n], u), [req |-> PyBool(req)])
    IN  Returned(d, [cat EXCEPT ![n] = d])

\* variant: a missing template is replaced by an empty dict
\* (type2inputs.get(typ, {})), so line 52 never fails
FallbackEmptyDict(cat, typ, req) ==
    IF InCatalog(cat, typ)
    THEN ViaTemplate(cat, typ.n, << >>, req)
    ELSE IF SubclassRaises(typ)
    THEN Returned([req |-> PyBool(req)], cat)
    ELSE IF typ.k = "intenum"
    THEN ViaTemplate(cat, "IntEnum", [options |-> EnumMembers(typ.n)], req)
    ELSE IF typ.k = "generic" /\ typ.n \in DOMAIN cat
    THEN IF typ.n = "list"
         THEN ViaTemplate(cat, typ.n, [options |-> {}], req)
         ELSE ViaTemplate(cat, typ.n, << >>, req)
    ELSE Returned([req |-> PyBool(req)], cat)

\* lines 44-53, typ and req as they are after line 43
Fallback(cat, typ, req) ==
    IF InCatalog(cat, typ)
    THEN ViaTemplate(cat, typ.n, << >>, req)
    ELSE IF SubclassRaises(typ)
    THEN Raised("TypeError", cat)
    ELSE IF typ.k = "intenum"
    THEN ViaTemplate(cat, "IntEnum", [options |-> EnumMembers(typ.n)], req)
    ELSE IF typ.k = "generic"
    THEN IF typ.n \notin DOMAIN cat
         THEN Raised("AttributeError", cat)
         ELSE IF typ.n = "list"
              THEN ViaTemplate(cat, typ.n, [options |-> {}], req)
              ELSE ViaTemplate(cat, typ.n, << >>, req)
    ELSE Raised("AttributeError", cat)

Typ2Inp(cat, typ, key) ==
    IF EndsWith(key, IdSuffix) /\ typ = PyInt
    THEN Returned([input |-> "select", options |-> {},
                   source_field |-> Capitalize(Replace(key)),
                   req |-> PyBool(ReqDefault)], cat)
    ELSE IF InCatalog(cat, typ)
    THEN ViaTemplate(cat, typ.n, << >>, ReqDefault)
    ELSE IF IsUnwrapped(typ)
    THEN IF Len(typ.args) # 2
         THEN Raised("ValueError", cat)
         ELSE Fallback(cat, typ.args[1], ReqObject(typ.args[2]))
    ELSE Fallback(cat, typ, ReqDefault)

\* {**typ2inp(f.annotation, key), 'name': f.title, 'validators': f.metadata}
Descriptor(inp, f) ==
    Update(inp, [name |-> f.title, validators |-> f.metadata])

\* ------------------------------------------------------------------------
\* Input metadata: pyd.model_fields
\* ------------------------------------------------------------------------
\* one item of pyd.model_fields.items(): the key and the FieldInfo
\* (annotation, title, metadata)
Field(key, annotation, title) ==
    [key |-> key, annotation |-> annotation, title |-> title,
     metadata |-> << >>]

F_name == Field(<<"n","a","m","e">>,
    PyStr, "Name")
F_count == Field(<<"c","o","u","n","t">>,
    PyInt, "Count")
F_price == Field(<<"p","r","i","c","e">>,
    Class("float"), "Price")
F_active == Field(<<"a","c","t","i","v","e">>,
    Class("bool"), "Active")
F_created == Field(<<"c","r","e","a","t","e","d">>,
    Class("datetime"), "Created")
F_day == Field(<<"d","a","y">>,
    Class("date"), "Day")
F_at == Field(<<"a","t">>,
    Class("time"), "At")
F_tags == Field(<<"t","a","g","s">>,
    Class("list"), "Tags")
F_labels == Field(<<"l","a","b","e","l","s">>,
    Class("set"), "Labels")
F_meta == Field(<<"m","e","t","a">>,
    Class("dict"), "Meta")
F_state == Field(<<"s","t","a","t","e">>,
    Class("IntEnum"), "State")
F_author_id == Field(<<"a","u","t","h","o","r","_","i","d">>,
    PyInt, "Author Id")
F_ext_idp_id == Field(<<"e","x","t","_","i","d","p","_","i","d">>,
    PyInt, "Ext Idp Id")
F_x_id == Field(<<"x","_","i","d">>,
    PyStr, "X Id")
F_bio == Field(<<"b","i","o">>,
    OptionalOf(PyStr), "Bio")
F_nick == Field(<<"n","i","c","k">>,
    UnionOf(<<PyStr, NoneType>>), "Nick")
F_color == Field(<<"c","o","l","o","r">>,
    EnumClass("Color"), "Color")
F_shade == Field(<<"s","h","a","d","e">>,
    EnumClass("Shade"), "Shade")
F_hue == Field(<<"h","u","e">>,
    OptionalOf(EnumClass("Color")), "Hue")
F_blob == Field(<<"b","l","o","b">>,
    Class("bytes"), "Blob")
F_pair == Field(<<"p","a","i","r">>,
    GenericOf("tuple", <<PyInt>>), "Pair")
F_raw == Field(<<"r","a","w">>,
    UnionOf(<<Class("bytes"), NoneType>>), "Raw")
F_mixed == Field(<<"m","i","x","e","d">>,
    UnionOf(<<PyInt, PyStr>>), "Mixed")
F_mixed3 == Field(<<"m","i","x","e","d","3">>,
    UnionOf(<<PyInt, PyStr, NoneType>>), "Mixed3")
F_items == Field(<<"i","t","e","m","s">>,
    GenericOf("list", <<PyInt>>), "Items")
F_uniq == Field(<<"u","n","i","q">>,
    GenericOf("set", <<PyInt>>), "Uniq")
F_counts == Field(<<"c","o","u","n","t","s">>,
    GenericOf("dict", <<PyStr, PyInt>>), "Counts")

\* the fields of the single-field entities
FieldPool ==
    {F_name, F_count, F_price, F_active, F_created,
     F_day, F_at, F_tags, F_labels, F_meta,
     F_state, F_author_id, F_ext_idp_id, F_x_id, F_bio,
     F_nick, F_color, F_shade, F_hue, F_blob,
     F_pair, F_raw, F_mixed, F_mixed3, F_items,
     F_uniq, F_counts}

\* pyd.model_fields is a dict: its keys are distinct, its order is fixed
DistinctKeys(m) ==
    \A i, j \in 1..Len(m) : i # j => m[i].key # m[j].key

\* every entity made of one or more fields of pool, in every order
Orderings(pool) ==
    {m \in UNION {[1..n -> pool] : n \in 1..Cardinality(pool)} :
        DistinctKeys(m)}

\* the single-field entities ffrom_pyd is called on
FieldEntities == {<<f>> : f \in FieldPool}

\* the entities of several fields ffrom_pyd is called on, and the
\* single-field entities of their fields: a bare list, a list[int] and an
\* enum; two enums; a list[int] and a type that has no widget; and the
\* single fields an optional enum, a dict[str, int] and a tuple[int]
Entities ==
    Orderings({F_tags, F_items, F_color})
    \cup Orderings({F_color, F_shade})
    \cup Orderings({F_items, F_blob})
    \cup {<<F_hue>>, <<F_counts>>, <<F_pair>>}

\* ------------------------------------------------------------------------
\* State
\* ------------------------------------------------------------------------
VARIABLES
    type2inputs,  \* the module-level catalog dict, shared by every call
    pc,           \* per context: "idle", "running", "done", "raised"
    pyd,          \* per context: model_fields of the call's argument
    idx,          \* per context: number of items the comprehension consumed
    out,          \* per context: the dict the comprehension has built,
                  \*   as the sequence of its (key, descriptor) items
    exc,          \* per context: the exception the call raised, or "none"
    prev,         \* per context: what the call before returned, when it
                  \*   was made on the same metadata; << >> otherwise
    calls,        \* number of ffrom_pyd calls made so far
    admins,       \* the admin_model table: pk -> row
    redis,        \* the token store: token -> admin pk
    nextToken,    \* the next token uuid4 returns
    initReq,      \* per client: the form of its POST /init suspended
                  \*   between the existence check and the create, or NoForm
    resp,         \* the request answered last and its response
    loggedOut,    \* history: the tokens a completed logout has carried,
                  \*   each with the route whose handler ran the logout
    records,      \* number of rows of the model the data table lists
    dtResp        \* the dt request answered last and its response

dvars == <<type2inputs, pc, pyd, idx, out, exc, prev, calls>>
avars == <<admins, redis, nextToken, initReq, resp, loggedOut>>
tvars == <<records, dtResp>>
vars  == <<type2inputs, pc, pyd, idx, out, exc, prev, calls,
           admins, redis, nextToken, initReq, resp, loggedOut,
           records, dtResp>>

Clients == 1..NumClients

\* request.cookies.get(...) is None, or an empty string: falsy
NoCookie == 0
\* the values a request's token cookie may carry: none, a token that login
\* handed out or will hand out, or a made-up one (MaxTokens + 1)
Cookies == 0..(MaxTokens + 1)

Usernames == {"root", "ops"}
Passwords == {"pw", "other"}

NoForm == [username |-> "", password |-> "", confirm_password |-> ""]
NoResp == [app |-> "none", route |-> "none", cookie |-> NoCookie,
           identity |-> FALSE, stale |-> FALSE, ran |-> "none",
           status |-> 0, location |-> ""]

DeriveInit ==
    /\ type2inputs = Type2InputsInit
    /\ pc    = [c \in Ctx |-> "idle"]
    /\ pyd   = [c \in Ctx |-> << >>]
    /\ idx   = [c \in Ctx |-> 0]
    /\ out   = [c \in Ctx |-> << >>]
    /\ exc   = [c \in Ctx |-> "none"]
    /\ prev  = [c \in Ctx |-> << >>]
    /\ calls = 0

\* an empty admin table, an empty token store, nothing answered yet
AuthInit ==
    /\ admins    = << >>
    /\ redis     = << >>
    /\ nextToken = 1
    /\ initReq   = [u \in Clients |-> NoForm]
    /\ resp      = NoResp
    /\ loggedOut = << >>

\* no dt request answered yet
NoDtResp == [status |-> 0, start |-> 0, length |-> 0, draw |-> 0,
             recordsTotal |-> 0, recordsFiltered |-> 0, data |-> << >>]

\* an empty model table, no dt request answered yet
DtIdle ==
    /\ records = 0
    /\ dtResp  = NoDtResp

Init == DeriveInit /\ AuthInit /\ DtIdle

\* ------------------------------------------------------------------------
\* ffrom_pyd
\* ------------------------------------------------------------------------
\* a request context calls ffrom_pyd(pyd)
Call(c, m) ==
    /\ pc[c] # "running"
    /\ calls < MaxCalls
    /\ calls' = calls + 1
    /\ prev'  = [prev EXCEPT ![c] =
                    IF pc[c] = "done" /\ pyd[c] = m THEN out[c] ELSE << >>]
    /\ pc'    = [pc EXCEPT ![c] = "running"]
    /\ pyd'   = [pyd EXCEPT ![c] = m]
    /\ idx'   = [idx EXCEPT ![c] = 0]
    /\ out'   = [out EXCEPT ![c] = << >>]
    /\ exc'   = [exc EXCEPT ![c] = "none"]
    /\ UNCHANGED type2inputs
    /\ UNCHANGED <<avars, tvars>>

\* variant: the new item goes in front of the ones already there
AddItemFront(o, f, inp) ==
    <<[key |-> f.key, desc |-> Descriptor(inp, f)]>> \o o

\* the item the comprehension adds for one (key, f) of model_fields; a
\* dict keeps its items in insertion order
AddItem(o, f, inp) == Append(o, [key |-> f.key, desc |-> Descriptor(inp, f)])

\* one iteration of the dict comprehension of line 55: typ2inp on the next
\* item, then either the item is added (and the dict is returned after the
\* last one) or the exception leaves ffrom_pyd and nothing is returned
Step(c) ==
    /\ pc[c] = "running"
    /\ idx[c] < Len(pyd[c])
    /\ LET f == pyd[c][idx[c] + 1]
           r == Typ2Inp(type2inputs, f.annotation, f.key)
       IN  /\ type2inputs' = r.cat
           /\ idx' = [idx EXCEPT ![c] = @ + 1]
           /\ IF r.err = "none"
              THEN /\ out' = [out EXCEPT ![c] = AddItem(@, f, r.inp)]
                   /\ pc'  = [pc EXCEPT ![c] =
                                IF idx[c] + 1 = Len(pyd[c])
                                THEN "done" ELSE "running"]
                   /\ exc' = exc
              ELSE /\ out' = [out EXCEPT ![c] = << >>]
                   /\ pc'  = [pc EXCEPT ![c] = "raised"]
                   /\ exc' = [exc EXCEPT ![c] = r.err]
    /\ UNCHANGED <<pyd, prev, calls>>
    /\ UNCHANGED <<avars, tvars>>

\* ffrom_pyd called on entities of one or several fields
Next ==
    \/ \E c \in Ctx, m \in Entities : Call(c, m)
    \/ \E c \in Ctx : Step(c)

Spec == Init /\ [][Next]_vars

\* ffrom_pyd called on single-field entities, of every type of FieldPool
FieldNext ==
    \/ \E c \in Ctx, m \in FieldEntities : Call(c, m)
    \/ \E c \in Ctx : Step(c)

FieldSpec == Init /\ [][FieldNext]_vars

TypeOK ==
    /\ DOMAIN type2inputs = DOMAIN Type2InputsInit
    /\ \A c \in Ctx : pc[c] \in {"idle", "running", "done", "raised"}

\* ------------------------------------------------------------------------
\* The token store, the admin table and the password hasher
\* ------------------------------------------------------------------------
\* no admin: get_or_none(...) is None
NoAdmin == 0

\* cc.hash / cc.verify: a hash verifies exactly the password it was made of
Hash(p) == <<"hash", p>>
Verify(p, h) == h = Hash(p)

\* admin_id = await redis.get(token_key)
\* admin = await self.admin_model.get_or_none(pk=admin_id)
\* for a truthy token; admin stays None otherwise
Resolve(token, rds, adm) ==
    IF token # NoCookie /\ token \in DOMAIN rds /\ rds[token] \in DOMAIN adm
    THEN rds[token]
    ELSE NoAdmin

\* the rows a get_or_none(username=name) matches
RowsByUsername(adm, name) == {pk \in DOMAIN adm : adm[pk].username = name}

\* await self.admin_model.get_or_none(username=username), when it returns
AdminByUsername(adm, name) ==
    IF RowsByUsername(adm, name) # {}
    THEN CHOOSE pk \in RowsByUsername(adm, name) : TRUE
    ELSE NoAdmin

\* the path of a route
Path(route) ==
    CASE route \in {"GET /login", "POST /login"}       -> "/login"
      [] route \in {"GET /init", "POST /init"}         -> "/init"
      [] route = "GET /logout"                         -> "/logout"
      [] route \in {"GET /password", "POST /password"} -> "/password"
      [] route = "GET /admin"                          -> "/admin"
      [] route = "GET /"                               -> "/"
      [] OTHER                                         -> "none"

\* ------------------------------------------------------------------------
\* The gates
\* ------------------------------------------------------------------------
\* a gate either hands the request on (call_next / the dependency returns)
\* or answers it itself
HandOn           == [next |-> TRUE,  status |-> 0, location |-> ""]
Refuse(st, loc)  == [next |-> FALSE, status |-> st, location |-> loc]

\* AuthProvider.authenticate (BaseHTTPMiddleware dispatch)
Authenticate(path, token, rds, adm) ==
    IF path = "/init" THEN HandOn
    ELSE LET admin == Resolve(token, rds, adm)
         IN  IF path # "/login"
             THEN IF admin # NoAdmin THEN HandOn ELSE Refuse(303, "/login")
             ELSE IF admin # NoAdmin THEN Refuse(307, "/admin") ELSE HandOn

\* UsernamePasswordProvider.authenticate: login.py never imports
\* `constants`, so building token_key for a truthy token raises NameError
\* and the request is answered 500; without a token admin is None and the
\* request is always handed on
AuthenticateUP(path, token, rds, adm) ==
    IF token # NoCookie THEN Refuse(500, "")
    ELSE HandOn

\* Admin.auth_middleware (route dependency): HTTPException 303 with
\* Location /login when the cookie is missing or empty, nothing else
AuthMiddleware(path, token) ==
    IF token = NoCookie THEN Refuse(303, "/login") ELSE HandOn

\* ------------------------------------------------------------------------
\* Requests
\* ------------------------------------------------------------------------
\* the record of an answered request; identity tells whether the cookie
\* token resolved to an existing admin when the request arrived, stale
\* whether a logout carrying the token had completed by then
Answer(app, route, cookie, ran, status, location) ==
    [app |-> app, route |-> route, cookie |-> cookie,
     identity |-> Resolve(cookie, redis, admins) # NoAdmin,
     stale |-> cookie \in DOMAIN loggedOut,
     ran |-> ran, status |-> status, location |-> location]

\* a request the gate g answered itself
Refused(app, route, cookie, g) ==
    Answer(app, route, cookie, "none", g.status, g.location)

LoginForms == [username : Usernames, password : Passwords]
InitForms  == [username : Usernames, password : Passwords,
               confirm_password : Passwords]

\* GET /login, GET /password, GET /admin of an AuthProvider application:
\* the views render a template and change nothing
AP_View(route, cookie) ==
    /\ route \in {"GET /login", "GET /password", "GET /admin"}
    /\ LET g == Authenticate(Path(route), cookie, redis, admins)
       IN  resp' = IF g.next
                   THEN Answer("AuthProvider", route, cookie, "view", 200, "")
                   ELSE Refused("AuthProvider", route, cookie, g)
    /\ UNCHANGED <<admins, redis, nextToken, initReq, loggedOut>>
    /\ UNCHANGED <<dvars, tvars>>

\* POST /login: AuthProvider.login
AP_Login(cookie, form) ==
    LET g     == Authenticate("/login", cookie, redis, admins)
        admin == AdminByUsername(admins, form.username)
    IN  IF ~g.next
        THEN /\ resp' = Refused("AuthProvider", "POST /login", cookie, g)
             /\ UNCHANGED <<admins, redis, nextToken, initReq, loggedOut>>
             /\ UNCHANGED <<dvars, tvars>>
        ELSE IF Cardinality(RowsByUsername(admins, form.username)) > 1
        THEN \* get_or_none raises MultipleObjectsReturned
             /\ resp' = Answer("AuthProvider", "POST /login", cookie,
                               "login", 500, "")
             /\ UNCHANGED <<admins, redis, nextToken, initReq, loggedOut>>
             /\ UNCHANGED <<dvars, tvars>>
        ELSE IF admin = NoAdmin
                \/ ~Verify(form.password, admins[admin].password)
        THEN /\ resp' = Answer("AuthProvider", "POST /login", cookie,
                               "login", 401, "")
             /\ UNCHANGED <<admins, redis, nextToken, initReq, loggedOut>>
             /\ UNCHANGED <<dvars, tvars>>
        ELSE /\ nextToken <= MaxTokens
             /\ redis' = Update(redis, [t \in {nextToken} |-> admin])
             /\ nextToken' = nextToken + 1
             /\ resp' = Answer("AuthProvider", "POST /login", cookie,
                               "login", 303, "/admin")
             /\ UNCHANGED <<admins, initReq, loggedOut>>
             /\ UNCHANGED <<dvars, tvars>>

\* a logout that leaves the token store as it was
LogoutKeep(rds, token) == rds

\* await request.app.redis.delete(LOGIN_USER.format(token=token)), token
\* being the access_token cookie of the request
Logout(rds, token) == [t \in (DOMAIN rds) \ {token} |-> rds[t]]

\* GET /logout: AuthProvider.logout
AP_Logout(cookie) ==
    LET g == Authenticate("/logout", cookie, redis, admins)
    IN  /\ IF g.next
           THEN /\ redis' = Logout(redis, cookie)
                /\ loggedOut' = Update(loggedOut,
                                       [t \in {cookie} |-> "GET /logout"])
                /\ resp' = Answer("AuthProvider", "GET /logout", cookie,
                                  "logout", 303, "/login")
           ELSE /\ redis' = redis
                /\ UNCHANGED loggedOut
                /\ resp' = Refused("AuthProvider", "GET /logout", cookie, g)
        /\ UNCHANGED <<admins, nextToken, initReq>>
        /\ UNCHANGED <<dvars, tvars>>

\* Depends(get_current_admin): the admin the gate resolved for the request
GetCurrentAdmin(token, rds, adm) == Resolve(token, rds, adm)

PasswordForms == [old_password : Passwords, new_password : Passwords,
                  re_new_password : Passwords]

\* POST /password: AuthProvider.password; admin.save goes through
\* pre_save_admin, which hashes the new password, and the handler ends
\* with self.logout(request)
AP_Password(cookie, form) ==
    LET g     == Authenticate("/password", cookie, redis, admins)
        admin == GetCurrentAdmin(cookie, redis, admins)
    IN  IF ~g.next
        THEN /\ resp' = Refused("AuthProvider", "POST /password", cookie, g)
             /\ UNCHANGED <<admins, redis, nextToken, initReq, loggedOut>>
             /\ UNCHANGED <<dvars, tvars>>
        ELSE IF \/ ~Verify(form.old_password, admins[admin].password)
                \/ form.new_password # form.re_new_password
        THEN /\ resp' = Answer("AuthProvider", "POST /password", cookie,
                               "password", 200, "")
             /\ UNCHANGED <<admins, redis, nextToken, initReq, loggedOut>>
             /\ UNCHANGED <<dvars, tvars>>
        ELSE /\ admins' = [admins EXCEPT
                              ![admin].password = Hash(form.new_password)]
             /\ redis' = Logout(redis, cookie)
             /\ loggedOut' = Update(loggedOut,
                                    [t \in {cookie} |-> "POST /password"])
             /\ resp' = Answer("AuthProvider", "POST /password", cookie,
                               "password", 303, "/login")
             /\ UNCHANGED <<nextToken, initReq>>
             /\ UNCHANGED <<dvars, tvars>>

\* GET /init: AuthProvider.init_view
AP_InitView(cookie) ==
    /\ resp' = IF DOMAIN admins # {}
               THEN Answer("AuthProvider", "GET /init", cookie,
                           "init_view", 303, "/login")
               ELSE Answer("AuthProvider", "GET /init", cookie,
                           "init_view", 200, "")
    /\ UNCHANGED <<admins, redis, nextToken, initReq, loggedOut>>
    /\ UNCHANGED <<dvars, tvars>>

\* POST /init, AuthProvider.init up to `await self.create_user(...)`: the
\* existence check, the form, the comparison of the two passwords
AP_InitCheck(u, cookie, form) ==
    /\ initReq[u] = NoForm
    /\ IF DOMAIN admins # {}
       THEN /\ resp' = Answer("AuthProvider", "POST /init", cookie,
                              "init", 303, "/login")
            /\ UNCHANGED initReq
       ELSE IF form.password # form.confirm_password
       THEN /\ resp' = Answer("AuthProvider", "POST /init", cookie,
                              "init", 200, "")
            /\ UNCHANGED initReq
       ELSE /\ initReq' = [initReq EXCEPT ![u] = form]
            /\ UNCHANGED resp
    /\ UNCHANGED <<admins, redis, nextToken, loggedOut>>
    /\ UNCHANGED <<dvars, tvars>>

\* POST /init, the rest of AuthProvider.init: create_user (pre_save_admin
\* hashes the password of a row that has no pk yet), then redirect_login
AP_InitCreate(u) ==
    /\ initReq[u] # NoForm
    /\ Len(admins) < MaxAdmins
    /\ admins' = Append(admins, [username |-> initReq[u].username,
                                 password |-> Hash(initReq[u].password)])
    /\ initReq' = [initReq EXCEPT ![u] = NoForm]
    /\ resp' = Answer("AuthProvider", "POST /init", NoCookie,
                      "init", 303, "/login")
    /\ UNCHANGED <<redis, nextToken, loggedOut>>
    /\ UNCHANGED <<dvars, tvars>>

\* GET / of an Admin application: the route depends on
\* Admin.auth_middleware, then Admin.dash renders the dashboard
Admin_Dash(cookie) ==
    /\ LET g == AuthMiddleware("/", cookie)
       IN  resp' = IF g.next
                   THEN Answer("Admin", "GET /", cookie, "dash", 200, "")
                   ELSE Refused("Admin", "GET /", cookie, g)
    /\ UNCHANGED <<admins, redis, nextToken, initReq, loggedOut>>
    /\ UNCHANGED <<dvars, tvars>>

\* GET /login, GET /password of a UsernamePasswordProvider application:
\* the views render a template and change nothing
UP_View(route, cookie) ==
    /\ route \in {"GET /login", "GET /password"}
    /\ LET g == AuthenticateUP(Path(route), cookie, redis, admins)
       IN  resp' = IF g.next
                   THEN Answer("UsernamePasswordProvider", route, cookie,
                               "view", 200, "")
                   ELSE Refused("UsernamePasswordProvider", route, cookie, g)
    /\ UNCHANGED <<admins, redis, nextToken, initReq, loggedOut>>
    /\ UNCHANGED <<dvars, tvars>>

AuthNext ==
    \/ \E route \in {"GET /login", "GET /password", "GET /admin"},
          cookie \in Cookies : AP_View(route, cookie)
    \/ \E cookie \in Cookies, form \in LoginForms : AP_Login(cookie, form)
    \/ \E cookie \in Cookies : AP_Logout(cookie)
    \/ \E cookie \in Cookies, form \in PasswordForms :
          AP_Password(cookie, form)
    \/ \E cookie \in Cookies : AP_InitView(cookie)
    \/ \E u \in Clients, cookie \in Cookies, form \in InitForms :
          AP_InitCheck(u, cookie, form)
    \/ \E u \in Clients : AP_InitCreate(u)
    \/ \E cookie \in Cookies : Admin_Dash(cookie)
    \/ \E route \in {"GET /login", "GET /password"}, cookie \in Cookies :
          UP_View(route, cookie)

AuthSpec == Init /\ [][AuthNext]_vars

\* the admin tables of an installation whose admins have been created:
\* one row or more, each with a hashed password
AdminTables ==
    UNION {[1..n -> [username : Usernames, password : {Hash("pw")}]] :
              n \in 1..MaxAdmins}

SessionInit ==
    /\ DeriveInit
    /\ admins \in AdminTables
    /\ redis     = << >>
    /\ nextToken = 1
    /\ initReq   = [u \in Clients |-> NoForm]
    /\ resp      = NoResp
    /\ loggedOut = << >>
    /\ DtIdle

\* the requests an AuthProvider application answers once admins exist;
\* AuthProvider.init then returns at its existence check, before
\* create_user
SessionNext ==
    \/ \E route \in {"GET /login", "GET /password", "GET /admin"},
          cookie \in Cookies : AP_View(route, cookie)
    \/ \E cookie \in Cookies, form \in LoginForms : AP_Login(cookie, form)
    \/ \E cookie \in Cookies : AP_Logout(cookie)
    \/ \E cookie \in Cookies, form \in PasswordForms :
          AP_Password(cookie, form)
    \/ \E cookie \in Cookies : AP_InitView(cookie)
    \/ \E u \in Clients, cookie \in Cookies, form \in InitForms :
          AP_InitCheck(u, cookie, form)

SessionSpec == SessionInit /\ [][SessionNext]_vars

\* ------------------------------------------------------------------------
\* The data table endpoint: Admin.dt
\* ------------------------------------------------------------------------
\* the form parse_fs returns: draw, start, length and one order entry on
\* the id column
Draws   == {1, 2}
DtForms == [draw : Draws, start : 0..MaxStart, length : 1..MaxLength,
            dir : {"asc", "desc"}]

\* the ids of the n rows of the model, in the order asked for
Ordered(n, dir) == [i \in 1..n |-> IF dir = "desc" THEN n + 1 - i ELSE i]

Min(a, b) == IF a < b THEN a ELSE b

\* await model.pageQuery(length, start, order, True): the rows of the
\* ordered table after the first `offset`, `limit` of them at most
PageQuery(n, limit, offset, dir) ==
    [i \in 1..(IF offset < n THEN Min(limit, n - offset) ELSE 0) |->
        Ordered(n, dir)[offset + i]]

\* render(obj): one row per object, its id a link to the object
Render(id) == [id |-> <<"a", id>>]

\* total = len(data)+form['start'] if form['length']-len(data)
\*         else await model.all().count()
Total(n, form, data) ==
    IF form.length - Len(data) # 0 THEN Len(data) + form.start ELSE n

\* POST /dt/<name> of an Admin application: the route depends on
\* Admin.auth_middleware, then Admin.dt answers in DataTables format
Admin_Dt(cookie, form) ==
    /\ LET g    == AuthMiddleware("/dt", cookie)
           objs == PageQuery(records, form.length, form.start, form.dir)
           data == [i \in 1..Len(objs) |-> Render(objs[i])]
           total == Total(records, form, data)
       IN  dtResp' =
               IF g.next
               THEN [status |-> 200, start |-> form.start,
                     length |-> form.length, draw |-> form.draw,
                     recordsTotal |-> total, recordsFiltered |-> total,
                     data |-> data]
               ELSE [NoDtResp EXCEPT !.status = g.status,
                                     !.start = form.start,
                                     !.length = form.length]
    /\ UNCHANGED records
    /\ UNCHANGED <<dvars, avars>>

\* a model table of any size up to MaxRecords
DtInit ==
    /\ DeriveInit
    /\ AuthInit
    /\ records \in 0..MaxRecords
    /\ dtResp = NoDtResp

DtNext == \E cookie \in Cookies, form \in DtForms : Admin_Dt(cookie, form)

DtSpec == DtInit /\ [][DtNext]_vars

\* ------------------------------------------------------------------------
\* Vocabulary of the properties
\* ------------------------------------------------------------------------
\* ffrom_pyd returned in context c; out[c] is the returned mapping
Returned_(c) == pc[c] = "done"

\* the mapping o has an item for key
Has(o, key) == \E i \in 1..Len(o) : o[i].key = key

\* the descriptor the mapping o holds for key
Get(o, key) == o[CHOOSE i \in 1..Len(o) : o[i].key = key].desc

\* equality of two dicts, key by key
SameDict(a, b) ==
    /\ DOMAIN a = DOMAIN b
    /\ \A x \in DOMAIN a : a[x] = b[x]

\* the abstract widget kind a descriptor dict stands for
WidgetKind(d) ==
    CASE d.input = "input" /\ "type" \in DOMAIN d /\ d.type = "number"
            -> "numeric-input"
      [] d.input = "input" /\ ~("type" \in DOMAIN d /\ d.type = "number")
            -> "text-input"
      [] d.input = "checkbox" -> "checkbox"
      [] d.input = "select" /\ "multiple" \in DOMAIN d /\ d.multiple
            -> "multi-select"
      [] d.input = "select" /\ ~("multiple" \in DOMAIN d /\ d.multiple)
            -> "select"
      [] d.input = "textarea" -> "textarea"
      [] d.input = "json" -> "json-blob"
      [] OTHER -> "unknown"

\* the rendering hints of a descriptor dict: numeric step, date/time
\* granularity, multiplicity flag (type=number is the numeric kind itself)
ExtraAttrs(d) ==
    [x \in {y \in (DOMAIN d) \cap {"step", "type", "multiple"} :
                ~(y = "type" /\ d.type = "number")} |-> d[x]]

IsUnion(t) == t.k \in {"uniontype", "optional"}

\* positions of the non-null members of a union
NonNull(t) == {i \in 1..Len(t.args) : t.args[i] # NoneType}

\* a union of exactly one non-null type with null
IsOptionalWrapper(t) ==
    /\ IsUnion(t)
    /\ Cardinality(NonNull(t)) = 1
    /\ \E i \in 1..Len(t.args) : t.args[i] = NoneType

\* the non-null member of an optional wrapper
Inner(t) == t.args[CHOOSE i \in NonNull(t) : TRUE]

\* the type with an optional wrapper removed
Unwrapped(t) == IF IsOptionalWrapper(t) THEN Inner(t) ELSE t

\* a type that has a row in the catalog table
IsCatalogType(t) == t.k = "class" /\ t.n \in DOMAIN Type2InputsInit

\* the foreign-key convention applies to the field
IsReference(f) == EndsWith(f.key, IdSuffix) /\ f.annotation = PyInt

\* the supported primitive types of the table
Primitives ==
    {"str", "int", "float", "bool", "datetime", "date", "time",
     "list", "set", "dict"}

\* ------------------------------------------------------------------------
\* C1
\* ------------------------------------------------------------------------
\* the part of the key before the trailing '_id', capitalized
ReferenceEntity(key) == Capitalize(SubSeq(key, 1, Len(key) - Len(IdSuffix)))

\* C1: in every mapping ffrom_pyd returns, a field whose key ends with
\* '_id' and whose type is int has input = select, options = {} and
\* source_field = the key without its trailing '_id', capitalized,
\* whatever calls were made before.
C1_ForeignKeyConvention ==
    \A c \in Ctx : Returned_(c) =>
        \A i \in 1..Len(pyd[c]) :
            IsReference(pyd[c][i]) =>
                /\ Has(out[c], pyd[c][i].key)
                /\ LET d == Get(out[c], pyd[c][i].key)
                   IN  /\ WidgetKind(d) = "select"
                       /\ "options" \in DOMAIN d /\ d.options = {}
                       /\ "source_field" \in DOMAIN d
                       /\ d.source_field = ReferenceEntity(pyd[c][i].key)

\* ------------------------------------------------------------------------
\* C2
\* ------------------------------------------------------------------------
\* C2: in every mapping ffrom_pyd returns, a field whose type is an
\* optional wrapper around a catalog type has the widget kind of the inner
\* type and req = False; a field whose type is not an optional wrapper has
\* req = True.
C2_OptionalNotRequired ==
    \A c \in Ctx : Returned_(c) =>
        \A i \in 1..Len(pyd[c]) :
            LET t == pyd[c][i].annotation
                d == Get(out[c], pyd[c][i].key)
            IN  /\ Has(out[c], pyd[c][i].key)
                /\ (IsOptionalWrapper(t) /\ IsCatalogType(Inner(t))) =>
                        /\ WidgetKind(d)
                             = WidgetKind(Type2InputsInit[Inner(t).n])
                        /\ d.req = FALSE
                /\ ~IsOptionalWrapper(t) => d.req = TRUE

\* ------------------------------------------------------------------------
\* C3
\* ------------------------------------------------------------------------
NoAttrs == [x \in {} |-> TRUE]

\* the rows of the table of primitive mappings as the specification
\* prints them
TableRow(n) ==
    CASE n = "str"      -> [kind |-> "text-input",    extra |-> NoAttrs]
      [] n = "int"      -> [kind |-> "numeric-input", extra |-> [step |-> "1"]]
      [] n = "float"    -> [kind |-> "numeric-input",
                            extra |-> [step |-> "0.001"]]
      [] n = "bool"     -> [kind |-> "checkbox",      extra |-> NoAttrs]
      [] n = "datetime" -> [kind |-> "text-input",
                            extra |-> [type |-> "datetime-local"]]
      [] n = "date"     -> [kind |-> "text-input", extra |-> [type |-> "date"]]
      [] n = "time"     -> [kind |-> "text-input", extra |-> [type |-> "time"]]
      [] n = "list"     -> [kind |-> "multi-select",
                            extra |-> [multiple |-> TRUE]]
      [] n = "set"      -> [kind |-> "multi-select",
                            extra |-> [multiple |-> TRUE]]
      [] n = "dict"     -> [kind |-> "json-blob",     extra |-> NoAttrs]

\* the same rows, the integer row without a step hint
TableRowNoIntStep(n) ==
    IF n = "int" THEN [kind |-> "numeric-input", extra |-> NoAttrs]
    ELSE TableRow(n)

\* context c returned the mapping of a single-field entity of a primitive
\* type whose key does not end in '_id'
PrimitiveSingle(c) ==
    /\ Returned_(c)
    /\ Len(pyd[c]) = 1
    /\ pyd[c][1].annotation.k = "class"
    /\ pyd[c][1].annotation.n \in Primitives
    /\ ~EndsWith(pyd[c][1].key, IdSuffix)

\* C3 as stated: a single-field entity of a supported primitive type has
\* exactly the widget kind and the extra attributes of its table row,
\* integer -> numeric-input with step=1 included.
C3_TableAsPrinted ==
    \A c \in Ctx : PrimitiveSingle(c) =>
        /\ Len(out[c]) = 1
        /\ WidgetKind(out[c][1].desc) = TableRow(pyd[c][1].annotation.n).kind
        /\ SameDict(ExtraAttrs(out[c][1].desc),
                    TableRow(pyd[c][1].annotation.n).extra)

\* C3 amended: a single-field entity of a supported primitive type has
\* exactly the widget kind and the extra attributes of its table row,
\* except that integer -> numeric-input carries no step attribute.
C3_TableNoIntStep ==
    \A c \in Ctx : PrimitiveSingle(c) =>
        /\ Len(out[c]) = 1
        /\ WidgetKind(out[c][1].desc)
             = TableRowNoIntStep(pyd[c][1].annotation.n).kind
        /\ SameDict(ExtraAttrs(out[c][1].desc),
                    TableRowNoIntStep(pyd[c][1].annotation.n).extra)

\* a floating-point and an integer single-field entity have both been
\* derived and returned
C3_Witness ==
    \E c, e \in Ctx :
        /\ PrimitiveSingle(c) /\ pyd[c][1].annotation.n = "float"
        /\ PrimitiveSingle(e) /\ pyd[e][1].annotation.n = "int"

\* ------------------------------------------------------------------------
\* C4
\* ------------------------------------------------------------------------
\* the field's type, optional wrapper removed, is an IntEnum subclass
IsEnumField(f) == Unwrapped(f.annotation).k = "intenum"

\* C4: in every mapping ffrom_pyd returns, a field whose (possibly
\* optional-unwrapped) type is an IntEnum subclass E is a select whose
\* options are exactly {member.value: member.name} of E, whichever enums
\* were derived before it in this call or in earlier calls.
C4_EnumOptions ==
    \A c \in Ctx : Returned_(c) =>
        \A i \in 1..Len(pyd[c]) :
            IsEnumField(pyd[c][i]) =>
                /\ Has(out[c], pyd[c][i].key)
                /\ LET d == Get(out[c], pyd[c][i].key)
                   IN  /\ WidgetKind(d) = "select"
                       /\ "options" \in DOMAIN d
                       /\ d.options
                            = EnumMembers(Unwrapped(pyd[c][i].annotation).n)

\* a returned mapping holds a Color field derived after a Shade field of
\* the same call, while the shared template has moved on to another enum
C4_Witness ==
    \E c \in Ctx :
        /\ Returned_(c)
        /\ \E i, j \in 1..Len(pyd[c]) :
              /\ i < j
              /\ pyd[c][i].annotation = EnumClass("Shade")
              /\ pyd[c][j].annotation = EnumClass("Color")
        /\ "options" \in DOMAIN type2inputs["IntEnum"]
        /\ type2inputs["IntEnum"].options = EnumMembers("Shade")

\* ------------------------------------------------------------------------
\* C5
\* ------------------------------------------------------------------------
\* the comprehension has consumed item i of the metadata of context c
Consumed(c, i) == i \in 1..idx[c]

\* the parameterized collections the fallback for collections covers
CollectionsAsStated == {"list", "set"}
CollectionsOfCatalog == {"list", "set", "dict"}

\* no rule applies to the field: it is not a reference, its type is not a
\* malformed union (those are answered by ambiguous-optional-type), and
\* with an optional wrapper removed it is neither a catalog type, nor an
\* IntEnum subclass, nor a parameterized collection among origins
NoRule(f, origins) ==
    LET t == f.annotation
        u == Unwrapped(f.annotation)
    IN  /\ ~IsReference(f)
        /\ IsUnion(t) => IsOptionalWrapper(t)
        /\ ~IsCatalogType(u)
        /\ u.k # "intenum"
        /\ ~(u.k = "generic" /\ u.n \in origins)

\* ffrom_pyd raised in context c and returned no mapping
RaisedNothing(c) == pc[c] = "raised" /\ exc[c] # "none" /\ out[c] = << >>

\* C5 as stated: once ffrom_pyd has reached a field that has no catalog
\* entry and matches no fallback rule (not '_id'+int, not optional of a
\* known type, not an IntEnum subclass, not a parameterized list or set),
\* the call has raised and returns no descriptor at all.
C5_UnsupportedAsStated ==
    \A c \in Ctx : \A i \in 1..Len(pyd[c]) :
        (Consumed(c, i) /\ NoRule(pyd[c][i], CollectionsAsStated))
            => RaisedNothing(c)

\* C5 amended: the same, the parameterized collections that have a
\* fallback being list, set and dict (every parameterized generic whose
\* origin has a catalog entry).
C5_UnsupportedRaises ==
    \A c \in Ctx : \A i \in 1..Len(pyd[c]) :
        (Consumed(c, i) /\ NoRule(pyd[c][i], CollectionsOfCatalog))
            => RaisedNothing(c)

\* a call raised on an unsupported second field, after a descriptor for
\* its first field had been built
C5_Witness ==
    \E c \in Ctx :
        /\ idx[c] = 2
        /\ NoRule(pyd[c][2], CollectionsOfCatalog)
        /\ ~NoRule(pyd[c][1], CollectionsOfCatalog)
        /\ RaisedNothing(c)
        /\ exc[c] = "AttributeError"

\* ------------------------------------------------------------------------
\* C6
\* ------------------------------------------------------------------------
\* a union with zero or with more than one non-null member
IsMalformedUnion(t) == IsUnion(t) /\ Cardinality(NonNull(t)) # 1

\* C6: once ffrom_pyd has reached a field whose type is a union with zero
\* or more than one non-null member, the call has raised and returns no
\* descriptor; the field is never resolved to one of the members.
C6_AmbiguousUnionRaises ==
    \A c \in Ctx : \A i \in 1..Len(pyd[c]) :
        (Consumed(c, i) /\ IsMalformedUnion(pyd[c][i].annotation))
            => RaisedNothing(c)

\* ------------------------------------------------------------------------
\* C7
\* ------------------------------------------------------------------------
\* C7: a call of ffrom_pyd that follows a call on the same metadata in the
\* same context returns a mapping equal to the first one, item by item and
\* attribute by attribute.
C7_Idempotent ==
    \A c \in Ctx :
        (Returned_(c) /\ prev[c] # << >>) => out[c] = prev[c]

\* ------------------------------------------------------------------------
\* C8
\* ------------------------------------------------------------------------
\* C8: the mapping ffrom_pyd returns has one item per field of
\* model_fields, and the keys come in the order of model_fields.
C8_OneItemPerFieldInOrder ==
    \A c \in Ctx : Returned_(c) =>
        /\ Len(out[c]) = Len(pyd[c])
        /\ \A i \in 1..Len(pyd[c]) : out[c][i].key = pyd[c][i].key
        /\ \A i \in 1..Len(pyd[c]) :
              Cardinality({j \in 1..Len(out[c]) :
                              out[c][j].key = pyd[c][i].key}) = 1

\* a mapping has been returned for an entity of at least three fields
C8_Witness ==
    \E c \in Ctx : Returned_(c) /\ Len(pyd[c]) >= 3 /\ Len(out[c]) >= 3

\* ------------------------------------------------------------------------
\* C9
\* ------------------------------------------------------------------------
\* ffrom_pyd run without interruption from item i on, starting with the
\* catalog cat and the items o: the mapping it returns, << >> if it raises
RECURSIVE RunFrom(_, _, _, _)
RunFrom(cat, m, i, o) ==
    IF i > Len(m) THEN o
    ELSE LET r == Typ2Inp(cat, m[i].annotation, m[i].key)
         IN  IF r.err # "none" THEN << >>
             ELSE RunFrom(r.cat, m, i + 1, AddItem(o, m[i], r.inp))

\* what ffrom_pyd(m) returns when it runs alone on the catalog as imported
Alone(m) == RunFrom(Type2InputsInit, m, 1, << >>)

\* C9: whatever the interleaving of the contexts' calls, every mapping
\* ffrom_pyd returns equals the one the same call returns when it runs
\* alone on a fresh catalog.
C9_IsolatedCalls ==
    \A c \in Ctx : Returned_(c) => out[c] = Alone(pyd[c])

\* ------------------------------------------------------------------------
\* C10
\* ------------------------------------------------------------------------
\* the entry points the gate does not cover
EntryPaths == {"/login", "/init"}

\* C10: a request to a route other than the login and init entry points
\* has its handler run only if its cookie token resolved to an existing
\* admin; otherwise it is answered 303 to /login and no handler runs.
C10_AuthGate ==
    (resp.app # "none" /\ Path(resp.route) \notin EntryPaths) =>
        /\ resp.ran # "none" => resp.identity
        /\ ~resp.identity =>
              /\ resp.ran = "none"
              /\ resp.status = 303
              /\ resp.location = "/login"

\* the same, of the requests an AuthProvider application answers
AuthProviderGate ==
    (resp.app = "AuthProvider" /\ Path(resp.route) \notin EntryPaths) =>
        /\ resp.ran # "none" => resp.identity
        /\ ~resp.identity =>
              /\ resp.ran = "none"
              /\ resp.status = 303
              /\ resp.location = "/login"

\* ------------------------------------------------------------------------
\* C11
\* ------------------------------------------------------------------------
\* C11: whatever calls of ffrom_pyd have run, every template of
\* type2inputs has exactly the keys and the values it was built with.
C11_CatalogUnchanged ==
    \A n \in DOMAIN Type2InputsInit :
        /\ n \in DOMAIN type2inputs
        /\ type2inputs[n] = Type2InputsInit[n]

\* ------------------------------------------------------------------------
\* C12
\* ------------------------------------------------------------------------
\* the field's type is list[X] or set[X]
IsParameterizedCollection(f) ==
    f.annotation.k = "generic" /\ f.annotation.n \in CollectionsAsStated

\* the field's type is the bare list
IsBareList(f) == f.annotation = Class("list")

\* C12: in every returned mapping a list[X] or set[X] field has the
\* multi-select descriptor with multiple = true, it has an options
\* attribute exactly when it is a list[X], the attribute being empty, and
\* a bare list field has no options attribute, whichever fields were
\* derived before it.
C12_CollectionFallback ==
    \A c \in Ctx : Returned_(c) =>
        \A i \in 1..Len(pyd[c]) :
            LET f == pyd[c][i]
                d == out[c][i].desc
            IN  /\ IsParameterizedCollection(f) =>
                      /\ WidgetKind(d) = "multi-select"
                      /\ ("options" \in DOMAIN d) <=> (f.annotation.n = "list")
                      /\ ("options" \in DOMAIN d) => d.options = {}
                /\ IsBareList(f) => "options" \notin DOMAIN d

\* ------------------------------------------------------------------------
\* C13
\* ------------------------------------------------------------------------
\* C13: once a logout carrying a stored token has completed, by GET
\* /logout or at the end of a successful password change, the token
\* resolves to no admin, and every request an AuthProvider application
\* answers afterwards for that token on a gated path is answered 303 to
\* /login without any handler run.
C13_LogoutInvalidates ==
    /\ \A t \in DOMAIN loggedOut : Resolve(t, redis, admins) = NoAdmin
    /\ (/\ resp.app = "AuthProvider"
        /\ resp.stale
        /\ Path(resp.route) \notin EntryPaths) =>
           /\ resp.ran = "none"
           /\ resp.status = 303
           /\ resp.location = "/login"

\* a request to /admin carrying a token that GET /logout invalidated has
\* been answered, and a password change has invalidated another token
C13_Witness ==
    /\ resp.app = "AuthProvider"
    /\ resp.route = "GET /admin"
    /\ resp.stale
    /\ loggedOut[resp.cookie] = "GET /logout"
    /\ \E t \in DOMAIN loggedOut : loggedOut[t] = "POST /password"

\* ------------------------------------------------------------------------
\* C14
\* ------------------------------------------------------------------------
\* C14: however the POST /init requests of the clients interleave, each
\* suspended between its existence check and its create, the admin table
\* never holds more than one admin created through /init.
C14_AtMostOneInit == Len(admins) <= 1

\* ------------------------------------------------------------------------
\* C15
\* ------------------------------------------------------------------------
\* C15: every dt response, for any number of records and any start >= 0
\* and length >= 1, holds at most `length` rows, and its recordsTotal and
\* recordsFiltered are both the number of records of the model.
C15_DtTotals ==
    dtResp.status = 200 =>
        /\ Len(dtResp.data) <= dtResp.length
        /\ dtResp.recordsTotal = records
        /\ dtResp.recordsFiltered = records

====
